---- MODULE Spec2Model ----
(***************************************************************************)
(* Fixarr media organizer: the pipeline of main() (scan, identify, score,  *)
(* decide, apply, report) over a list of MediaCandidate items, with the    *)
(* destination filesystem the apply stage writes to.                       *)
(*                                                                         *)
(* Scores are fixed-point numbers in thousandths (0.85 is 850).  The title *)
(* similarity computed by rapidfuzz is an input carried by each catalogue  *)
(* result (field sim), since it is a function of the two titles only.      *)
(***************************************************************************)
EXTENDS Integers, Sequences, FiniteSets, TLC

VARIABLES pc, idx, cfg, tree, items, fs, dirs, report, queried, applied, env

vars == <<pc, idx, cfg, tree, items, fs, dirs, report, queried, applied, env>>

----------------------------------------------------------------------------
(* Bounds of the model *)

MaxItems == 2

MaxSubs == 1

MaxCands == 3

MaxTolerance == 4

MaxFiles == 3

MaxTokens == 3

----------------------------------------------------------------------------
(* models.py: enumerations and optional fields *)

MOVIE == "movie"

TV_SHOW == "tv_show"

MUSIC == "music"

PENDING == "pending"

AUTO_ACCEPTED == "auto_accepted"

QUARANTINE == "quarantine"

IGNORED == "ignored"

MANUAL_REVIEW == "manual_review"

ERROR == "error"

Decision == {PENDING, AUTO_ACCEPTED, QUARANTINE, IGNORED, MANUAL_REVIEW, ERROR}

\* Optional[int] year: None (and 0) are falsy in every test the code makes
NoYear == 0

\* Optional[str] decision_reason = None
NoReason == "<None>"

\* the reason strings of decide, without the formatted numbers
ReasonNoMatch == "No metadata match found"

ReasonAmbiguous == "Ambiguous match: candidates above auto-accept threshold"

ReasonAccept == "Confidence >= auto-accept"

ReasonBelow == "Confidence below auto-accept but above quarantine threshold"

ReasonLow == "Low confidence < quarantine threshold"

\* ScoreBreakdown(): all zero until scored
DefaultScore == [title_similarity |-> 0, year_match |-> 0, keyword_overlap |-> 0, overall |-> 0]

----------------------------------------------------------------------------
(* Paths.  A path is a record; the media extension is the same for every   *)
(* file, so two movies collide exactly when title and year agree.          *)

Path(kind, title, a, b) == [kind |-> kind, title |-> title, a |-> a, b |-> b]

SrcPath(i) == Path("src", "", i, 0)

SubPath(i, k) == Path("src_sub", "", i, k)

\* content of a file: where it came from
Content(origin, n) == [origin |-> origin, n |-> n]

----------------------------------------------------------------------------
(* scoring.py *)

WTitle == 500

WYear == 300

WKeywords == 200

YearTolerance == 1

\* file_metadata: {} when the probe is unavailable
NoFileMetadata == [present |-> FALSE, video_codec |-> "", hdr |-> FALSE]

Min(a, b) == IF a <= b THEN a ELSE b

Abs(a) == IF a < 0 THEN -a ELSE a

\* the tolerance the scorer was built with is ignored: one year either side
ScoreYearToleranceOne(year_tolerance, query_year, result_year) ==
    IF query_year = NoYear THEN 500
    ELSE IF result_year = NoYear THEN 300
    ELSE LET diff == Abs(query_year - result_year) IN
         IF diff = 0 THEN 1000
         ELSE IF diff <= 1 THEN 800
         ELSE IF diff <= 2 THEN 500
         ELSE 200

\* _score_year of a scorer built with year_tolerance; a year is a number of
\* at most four digits, which int(str(year)[:4]) gives back unchanged
ScoreYearWith(year_tolerance, query_year, result_year) ==
    IF query_year = NoYear THEN 500
    ELSE IF result_year = NoYear THEN 300
    ELSE LET diff == Abs(query_year - result_year) IN
         IF diff = 0 THEN 1000
         ELSE IF diff <= year_tolerance THEN 800
         ELSE IF diff <= 2 THEN 500
         ELSE 200

\* _score_year of main's scorer, ConfidenceScorer()
ScoreYear(query_year, result_year) == ScoreYearWith(YearTolerance, query_year, result_year)

\* result_keywords is always None in score()
ScoreKeywords == 500

\* the hints applied whether or not the filename had a year
ApplyMetadataHintsAnyYear(base_year_score, query_year, result_year, file_metadata) ==
    IF result_year # NoYear
    THEN LET afterCodec ==
                 IF file_metadata.video_codec \in {"h265", "av1", "vp9"}
                 THEN (IF result_year >= 2015 THEN Min(1000, base_year_score + 100) ELSE base_year_score)
                 ELSE IF file_metadata.video_codec \in {"xvid", "divx"}
                 THEN (IF result_year <= 2010 THEN Min(1000, base_year_score + 100) ELSE base_year_score)
                 ELSE base_year_score
         IN IF file_metadata.hdr /\ result_year >= 2016
            THEN Min(1000, afterCodec + 100)
            ELSE afterCodec
    ELSE base_year_score

ApplyMetadataHints(base_year_score, query_year, result_year, file_metadata) ==
    IF query_year = NoYear /\ result_year # NoYear
    THEN LET afterCodec ==
                 IF file_metadata.video_codec \in {"h265", "av1", "vp9"}
                 THEN (IF result_year >= 2015 THEN Min(1000, base_year_score + 100) ELSE base_year_score)
                 ELSE IF file_metadata.video_codec \in {"xvid", "divx"}
                 THEN (IF result_year <= 2010 THEN Min(1000, base_year_score + 100) ELSE base_year_score)
                 ELSE base_year_score
         IN IF file_metadata.hdr /\ result_year >= 2016
            THEN Min(1000, afterCodec + 100)
            ELSE afterCodec
    ELSE base_year_score

ScoreMatch(title_score, query_year, result_year, file_metadata) ==
    LET base == ScoreYear(query_year, result_year)
        year_score == IF file_metadata.present
                      THEN ApplyMetadataHints(base, query_year, result_year, file_metadata)
                      ELSE base
    IN [title_similarity |-> title_score,
        year_match |-> year_score,
        keyword_overlap |-> ScoreKeywords,
        overall |-> (WTitle * title_score + WYear * year_score + WKeywords * ScoreKeywords) \div 1000]

\* list.sort(key=overall, reverse=True): stable, equal keys keep their order
RECURSIVE InsertDesc(_, _)
InsertDesc(sorted, c) ==
    IF sorted = <<>> THEN <<c>>
    ELSE IF Head(sorted).score.overall >= c.score.overall
         THEN <<Head(sorted)>> \o InsertDesc(Tail(sorted), c)
         ELSE <<c>> \o sorted

RECURSIVE SortDesc(_)
SortDesc(s) ==
    IF s = <<>> THEN <<>>
    ELSE InsertDesc(SortDesc(SubSeq(s, 1, Len(s) - 1)), s[Len(s)])

\* every candidate scored, the list left in the order identify gave it
ScoreItemUnsorted(item) ==
    IF item.candidates = <<>> THEN item
    ELSE LET scored == [k \in 1..Len(item.candidates) |->
                          [item.candidates[k] EXCEPT !.score =
                              ScoreMatch(item.candidates[k].sim, item.parsed_year,
                                         item.candidates[k].year, item.file_metadata)]]
         IN [item EXCEPT !.candidates = scored,
                         !.best_match = <<scored[1]>>,
                         !.confidence_score = scored[1].score.overall]

\* the list sorted from its far end: equal scores come out last-seen first
ScoreItemTiesReversed(item) ==
    IF item.candidates = <<>> THEN item
    ELSE LET scored == [k \in 1..Len(item.candidates) |->
                          [item.candidates[k] EXCEPT !.score =
                              ScoreMatch(item.candidates[k].sim, item.parsed_year,
                                         item.candidates[k].year, item.file_metadata)]]
             sorted == SortDesc([k \in 1..Len(scored) |-> scored[Len(scored) + 1 - k]])
         IN [item EXCEPT !.candidates = sorted,
                         !.best_match = <<sorted[1]>>,
                         !.confidence_score = sorted[1].score.overall]

\* score(candidate)
ScoreItem(item) ==
    IF item.candidates = <<>> THEN item
    ELSE LET scored == [k \in 1..Len(item.candidates) |->
                          [item.candidates[k] EXCEPT !.score =
                              ScoreMatch(item.candidates[k].sim, item.parsed_year,
                                         item.candidates[k].year, item.file_metadata)]]
             sorted == SortDesc(scored)
         IN [item EXCEPT !.candidates = sorted,
                         !.best_match = <<sorted[1]>>,
                         !.confidence_score = sorted[1].score.overall]

----------------------------------------------------------------------------
(* metadata.py: the resolver.  A response is what one catalogue source     *)
(* answers to one query: ok = FALSE is an exception, a timeout or a        *)
(* non-200 status.                                                         *)

Result(source, id, title, year, sim) ==
    [source |-> source, id |-> id, title |-> title, year |-> year, sim |-> sim,
     score |-> DefaultScore]

Response(ok, results) == [ok |-> ok, results |-> results]

Failure == Response(FALSE, <<>>)

\* search.results[:5], response.json()[:5]
MaxPerSource == 5

Take(s, n) == SubSeq(s, 1, Min(Len(s), n))

\* what one source contributes: nothing when the query raised
SourceResults(resp) == IF resp.ok THEN Take(resp.results, MaxPerSource) ELSE <<>>

\* _search_movies: [results, contacted]
SearchMovies(api, resp) ==
    LET fromTmdb == IF api.tmdb_enabled THEN SourceResults(resp.tmdb) ELSE <<>>
        useImdb == api.imdb_fallback /\ fromTmdb = <<>>
    IN [results |-> IF useImdb THEN SourceResults(resp.imdb) ELSE fromTmdb,
        contacted |-> (IF api.tmdb_enabled THEN {"tmdb"} ELSE {})
                      \cup (IF useImdb THEN {"imdb"} ELSE {})]

\* a TMDb failure ends the search: TVmaze is not asked
SearchTvStopsAtFailure(api, resp) ==
    IF api.tmdb_enabled /\ ~resp.tmdb.ok
    THEN [results |-> <<>>, contacted |-> {"tmdb"}]
    ELSE LET fromTmdb == IF api.tmdb_enabled THEN SourceResults(resp.tmdb) ELSE <<>>
             fromMaze == IF api.tvmaze_enabled THEN SourceResults(resp.tvmaze) ELSE <<>>
         IN [results |-> fromTmdb \o fromMaze,
             contacted |-> (IF api.tmdb_enabled THEN {"tmdb"} ELSE {})
                           \cup (IF api.tvmaze_enabled THEN {"tvmaze"} ELSE {})]

\* _search_tv: [results, contacted]
SearchTv(api, resp) ==
    LET fromTmdb == IF api.tmdb_enabled THEN SourceResults(resp.tmdb) ELSE <<>>
        fromMaze == IF api.tvmaze_enabled THEN SourceResults(resp.tvmaze) ELSE <<>>
    IN [results |-> fromTmdb \o fromMaze,
        contacted |-> (IF api.tmdb_enabled THEN {"tmdb"} ELSE {})
                      \cup (IF api.tvmaze_enabled THEN {"tvmaze"} ELSE {})]

\* the dedup loop of identify: first occurrence of each (source, id) is kept
RECURSIVE Dedup(_, _)
Dedup(results, seen_ids) ==
    IF results = <<>> THEN <<>>
    ELSE LET r == Head(results)
             key == <<r.source, r.id>>
         IN IF key \in seen_ids
            THEN Dedup(Tail(results), seen_ids)
            ELSE <<r>> \o Dedup(Tail(results), seen_ids \cup {key})

Tag(query, sources) == {[query |-> query, source |-> s] : s \in sources}

\* the merged results stored without the dedup loop
IdentifyKeepsAll(item, api, primary, hint) ==
    IF item.media_type = MUSIC THEN [item |-> item, contacted |-> {}]
    ELSE LET q1 == IF item.media_type = MOVIE THEN SearchMovies(api, primary)
                   ELSE SearchTv(api, primary)
             q2 == IF ~item.translation_hint THEN [results |-> <<>>, contacted |-> {}]
                   ELSE IF item.media_type = MOVIE THEN SearchMovies(api, hint)
                   ELSE SearchTv(api, hint)
         IN [item |-> [item EXCEPT !.candidates = q1.results \o q2.results],
             contacted |-> Tag("primary", q1.contacted) \cup Tag("hint", q2.contacted)]

\* identify(candidate): [item, contacted]; primary and hint are the sources'
\* answers to the primary-title query and to the translation-hint query
Identify(item, api, primary, hint) ==
    IF item.media_type = MUSIC THEN [item |-> item, contacted |-> {}]
    ELSE LET q1 == IF item.media_type = MOVIE THEN SearchMovies(api, primary)
                   ELSE SearchTv(api, primary)
             q2 == IF ~item.translation_hint THEN [results |-> <<>>, contacted |-> {}]
                   ELSE IF item.media_type = MOVIE THEN SearchMovies(api, hint)
                   ELSE SearchTv(api, hint)
         IN [item |-> [item EXCEPT !.candidates = Dedup(q1.results \o q2.results, {})],
             contacted |-> Tag("primary", q1.contacted) \cup Tag("hint", q2.contacted)]

----------------------------------------------------------------------------
(* organizer.py: decide *)

AutoAcceptDefault == 850

QuarantineDefault == 650

\* a ">" where the code has ">="
ConfidentMatchesStrict(item, auto_accept) ==
    {k \in 1..Len(item.candidates) : item.candidates[k].score.overall > auto_accept}

\* confident_matches: the candidates at or above auto_accept (a ScoreBreakdown is truthy)
ConfidentMatches(item, auto_accept) ==
    {k \in 1..Len(item.candidates) : item.candidates[k].score.overall >= auto_accept}

\* accepts only above the threshold
DecideByScoreStrictAccept(item, auto_accept, quarantine_threshold) ==
    IF item.confidence_score > auto_accept
    THEN [item EXCEPT !.decision = AUTO_ACCEPTED, !.decision_reason = ReasonAccept]
    ELSE IF item.confidence_score >= quarantine_threshold
    THEN [item EXCEPT !.decision = QUARANTINE, !.decision_reason = ReasonBelow]
    ELSE [item EXCEPT !.decision = QUARANTINE, !.decision_reason = ReasonLow]

\* the second test repeats the first threshold
DecideByScoreOneThreshold(item, auto_accept, quarantine_threshold) ==
    IF item.confidence_score >= auto_accept
    THEN [item EXCEPT !.decision = AUTO_ACCEPTED, !.decision_reason = ReasonAccept]
    ELSE IF item.confidence_score >= auto_accept
    THEN [item EXCEPT !.decision = QUARANTINE, !.decision_reason = ReasonBelow]
    ELSE [item EXCEPT !.decision = QUARANTINE, !.decision_reason = ReasonLow]

\* the threshold ladder of decide
DecideByScore(item, auto_accept, quarantine_threshold) ==
    IF item.confidence_score >= auto_accept
    THEN [item EXCEPT !.decision = AUTO_ACCEPTED, !.decision_reason = ReasonAccept]
    ELSE IF item.confidence_score >= quarantine_threshold
    THEN [item EXCEPT !.decision = QUARANTINE, !.decision_reason = ReasonBelow]
    ELSE [item EXCEPT !.decision = QUARANTINE, !.decision_reason = ReasonLow]

\* a missing match reported as an error
DecideNoMatchIsError(item, auto_accept, quarantine_threshold) ==
    IF item.media_type = MUSIC
    THEN [item EXCEPT !.decision = AUTO_ACCEPTED]
    ELSE IF item.best_match = <<>>
    THEN [item EXCEPT !.decision = ERROR, !.decision_reason = ReasonNoMatch]
    ELSE IF Cardinality(ConfidentMatches(item, auto_accept)) > 1
    THEN [item EXCEPT !.decision = QUARANTINE, !.decision_reason = ReasonAmbiguous]
    ELSE DecideByScore(item, auto_accept, quarantine_threshold)

\* music decided like any other item
DecideMusicLikeVideo(item, auto_accept, quarantine_threshold) ==
    IF item.best_match = <<>>
    THEN [item EXCEPT !.decision = QUARANTINE, !.decision_reason = ReasonNoMatch]
    ELSE IF Cardinality(ConfidentMatches(item, auto_accept)) > 1
    THEN [item EXCEPT !.decision = QUARANTINE, !.decision_reason = ReasonAmbiguous]
    ELSE DecideByScore(item, auto_accept, quarantine_threshold)

\* an item without a match is left as it came
DecideSkipsNoMatch(item, auto_accept, quarantine_threshold) ==
    IF item.media_type = MUSIC
    THEN [item EXCEPT !.decision = AUTO_ACCEPTED]
    ELSE IF item.best_match = <<>>
    THEN item
    ELSE IF Cardinality(ConfidentMatches(item, auto_accept)) > 1
    THEN [item EXCEPT !.decision = QUARANTINE, !.decision_reason = ReasonAmbiguous]
    ELSE DecideByScore(item, auto_accept, quarantine_threshold)

\* no test for several confident matches
DecideAcceptsAmbiguous(item, auto_accept, quarantine_threshold) ==
    IF item.media_type = MUSIC
    THEN [item EXCEPT !.decision = AUTO_ACCEPTED]
    ELSE IF item.best_match = <<>>
    THEN [item EXCEPT !.decision = QUARANTINE, !.decision_reason = ReasonNoMatch]
    ELSE DecideByScore(item, auto_accept, quarantine_threshold)

\* decide(candidate)
Decide(item, auto_accept, quarantine_threshold) ==
    IF item.media_type = MUSIC
    THEN [item EXCEPT !.decision = AUTO_ACCEPTED]
    ELSE IF item.best_match = <<>>
    THEN [item EXCEPT !.decision = QUARANTINE, !.decision_reason = ReasonNoMatch]
    ELSE IF Cardinality(ConfidentMatches(item, auto_accept)) > 1
    THEN [item EXCEPT !.decision = QUARANTINE, !.decision_reason = ReasonAmbiguous]
    ELSE DecideByScore(item, auto_accept, quarantine_threshold)

----------------------------------------------------------------------------
(* organizer.py: apply.  The destination tree is fs (path -> content) and  *)
(* dirs (the directories that exist).                                      *)

MovieDir(meta) == Path("movie_dir", meta.title, meta.year, 0)

MovieFile(meta) == Path("movie_file", meta.title, meta.year, 0)

\* every subtitle is renamed to <file_name><ext>, and every subtitle is .srt
MovieSub(meta) == Path("movie_sub", meta.title, meta.year, 0)

MovieNfo(meta) == Path("movie_nfo", meta.title, meta.year, 0)

TvShowDir(meta) == Path("tv_show_dir", meta.title, 0, 0)

TvSeasonDir(meta, season) == Path("tv_season_dir", meta.title, season, 0)

TvFile(meta, season, episode) == Path("tv_file", meta.title, season, episode)

TvSub(meta, season, episode) == Path("tv_sub", meta.title, season, episode)

TvNfo(meta) == Path("tv_nfo", meta.title, 0, 0)

\* review_needed/<relative_path>; every item is scanned from the source root
ReviewDir == Path("review_dir", "", 0, 0)

ReviewFile(item) == Path("review_file", "", item.original_path.a, 0)

ReviewSub(sub) == Path("review_sub", "", sub.path.a, sub.path.b)

ReviewMeta(item) == Path("review_meta", "", item.original_path.a, 0)

MusicDir == Path("music_dir", "", 0, 0)

\* os.makedirs(d, exist_ok=True): d and its missing parents
MakeDirs(ds, d) ==
    ds \cup {d} \cup (IF d.kind = "tv_season_dir" THEN {Path("tv_show_dir", d.title, 0, 0)} ELSE {})

\* open(path, "w").write(content)
WriteFile(files, path, content) ==
    [p \in DOMAIN files \cup {path} |-> IF p = path THEN content ELSE files[p]]

\* shutil.move(src, dst) onto a path that does not exist
Rename(files, src, dst) ==
    [p \in (DOMAIN files \ {src}) \cup {dst} |-> IF p = dst THEN files[src] ELSE files[p]]

\* _move_file(src, dst, dst_dir); io_ok = FALSE: shutil.move raises
\* [fs, dirs, outcome]; it returns True exactly for "dry" and "moved"
MoveFile(w, src, dst, dst_dir, dry_run, io_ok) ==
    IF dry_run THEN [fs |-> w.fs, dirs |-> w.dirs, outcome |-> "dry"]
    ELSE LET made == MakeDirs(w.dirs, dst_dir) IN
         IF dst \in DOMAIN w.fs
         THEN [fs |-> w.fs, dirs |-> made, outcome |-> "exists"]
         ELSE IF ~io_ok \/ src \notin DOMAIN w.fs
         THEN [fs |-> w.fs, dirs |-> made, outcome |-> "error"]
         ELSE [fs |-> Rename(w.fs, src, dst), dirs |-> made, outcome |-> "moved"]

\* os.path.splitext / os.path.basename accept str, bytes or PathLike only
IsPathLike(sub) == sub.kind = "str"

\* _move_subtitles: [fs, dirs, raised, calls]; a TypeError leaves the loop
RECURSIVE MoveSubtitles(_, _, _, _, _)
MoveSubtitles(w, subs, dst, dst_dir, dry_run) ==
    IF subs = <<>> THEN [fs |-> w.fs, dirs |-> w.dirs, raised |-> FALSE, calls |-> 0]
    ELSE IF ~IsPathLike(Head(subs))
    THEN [fs |-> w.fs, dirs |-> w.dirs, raised |-> TRUE, calls |-> 0]
    ELSE LET m == MoveFile(w, Head(subs).path, dst, dst_dir, dry_run, TRUE)
             rest == MoveSubtitles(m, Tail(subs), dst, dst_dir, dry_run)
         IN [rest EXCEPT !.calls = @ + 1]

\* the subtitle loop of _apply_quarantine
RECURSIVE QuarantineSubtitles(_, _, _)
QuarantineSubtitles(w, subs, dry_run) ==
    IF subs = <<>> THEN [fs |-> w.fs, dirs |-> w.dirs, raised |-> FALSE, calls |-> 0]
    ELSE IF ~IsPathLike(Head(subs))
    THEN [fs |-> w.fs, dirs |-> w.dirs, raised |-> TRUE, calls |-> 0]
    ELSE LET m == MoveFile(w, Head(subs).path, ReviewSub(Head(subs)), ReviewDir, dry_run, TRUE)
             rest == QuarantineSubtitles(m, Tail(subs), dry_run)
         IN [rest EXCEPT !.calls = @ + 1]

\* the .nfo written in a dry run too
CreateNfoInDryRun(w, directory, nfo_path, meta, dry_run) ==
    [fs |-> WriteFile(w.fs, nfo_path, Content(meta.source, meta.id)),
     dirs |-> MakeDirs(w.dirs, directory)]

\* _create_nfo: an existing .nfo is opened with "w"
CreateNfo(w, directory, nfo_path, meta, dry_run) ==
    IF dry_run THEN [fs |-> w.fs, dirs |-> w.dirs]
    ELSE [fs |-> WriteFile(w.fs, nfo_path, Content(meta.source, meta.id)),
          dirs |-> MakeDirs(w.dirs, directory)]

\* the value apply hands back: [item, fs, dirs, ret, media, calls]
\* ret is "true", "false", or "raised" when an exception leaves apply
Outcome(item, w, ret, media, calls) ==
    [item |-> item, fs |-> w.fs, dirs |-> w.dirs, ret |-> ret, media |-> media, calls |-> calls]

ApplyOrganized(item, w, dry_run, io_ok) ==
    IF item.best_match = <<>> THEN Outcome(item, w, "false", "none", 0)
    ELSE LET meta == item.best_match[1]
             season == IF item.season = 0 THEN 1 ELSE item.season
             episode == IF item.episode = 0 THEN 1 ELSE item.episode
             movie == item.media_type = MOVIE
             dst_dir == IF movie THEN MovieDir(meta) ELSE TvSeasonDir(meta, season)
             dst_path == IF movie THEN MovieFile(meta) ELSE TvFile(meta, season, episode)
             sub_dst == IF movie THEN MovieSub(meta) ELSE TvSub(meta, season, episode)
             nfo_dir == IF movie THEN MovieDir(meta) ELSE TvShowDir(meta)
             nfo_path == IF movie THEN MovieNfo(meta) ELSE TvNfo(meta)
             m == MoveFile(w, item.original_path, dst_path, dst_dir, dry_run, io_ok)
             s == MoveSubtitles(m, item.subtitles, sub_dst, dst_dir, dry_run)
             n == CreateNfo(s, nfo_dir, nfo_path, meta, dry_run)
         IN IF s.raised
            THEN Outcome(item, s, "raised", m.outcome, s.calls)
            ELSE Outcome([item EXCEPT !.destination_path = <<dst_path>>], n, "true",
                         m.outcome, s.calls)

ApplyQuarantine(item, w, dry_run, io_ok) ==
    LET dst_path == ReviewFile(item)
        m == MoveFile(w, item.original_path, dst_path, ReviewDir, dry_run, io_ok)
        s == QuarantineSubtitles(m, item.subtitles, dry_run)
        meta_fs == IF dry_run THEN s.fs
                   ELSE WriteFile(s.fs, ReviewMeta(item), Content("metadata.yaml", item.original_path.a))
    IN IF s.raised
       THEN Outcome(item, s, "raised", m.outcome, s.calls)
       ELSE Outcome([item EXCEPT !.destination_path = <<dst_path>>],
                    [fs |-> meta_fs, dirs |-> s.dirs], "true", m.outcome, s.calls)

\* _apply_music; beets_ok = FALSE: the beet subprocess fails
ApplyMusic(item, w, use_beets, dry_run, beets_ok) ==
    IF ~use_beets \/ dry_run THEN Outcome(item, w, "true", "none", 0)
    ELSE LET made == [fs |-> w.fs, dirs |-> MakeDirs(w.dirs, MusicDir)] IN
         IF beets_ok
         THEN Outcome([item EXCEPT !.destination_path = <<MusicDir>>], made, "true", "none", 0)
         ELSE Outcome(item, made, "false", "none", 0)

\* a failed move recorded by changing the decision to ERROR
ApplyMarksError(item, w, behavior, dry_run, io_ok, beets_ok) ==
    LET o == IF item.decision = AUTO_ACCEPTED
             THEN IF item.media_type = MUSIC
                  THEN ApplyMusic(item, w, behavior.use_beets_for_music, dry_run, beets_ok)
                  ELSE ApplyOrganized(item, w, dry_run, io_ok)
             ELSE IF item.decision = QUARANTINE
             THEN ApplyQuarantine(item, w, dry_run, io_ok)
             ELSE Outcome(item, w, "raised", "none", 0)
    IN IF o.media \in {"exists", "error"}
       THEN [o EXCEPT !.item.decision = ERROR, !.item.decision_reason = "Move failed"]
       ELSE o

\* apply(candidate)
Apply(item, w, behavior, dry_run, io_ok, beets_ok) ==
    IF item.decision = AUTO_ACCEPTED
    THEN IF item.media_type = MUSIC
         THEN ApplyMusic(item, w, behavior.use_beets_for_music, dry_run, beets_ok)
         ELSE ApplyOrganized(item, w, dry_run, io_ok)
    ELSE IF item.decision = QUARANTINE
    THEN ApplyQuarantine(item, w, dry_run, io_ok)
    ELSE \* Decision.IGNORE is no member of Decision: the comparison raises
         Outcome(item, w, "raised", "none", 0)

----------------------------------------------------------------------------
(* report.py *)

EmptyReport ==
    [results |-> <<>>, total_scanned |-> 0, movies_processed |-> 0, tv_shows_processed |-> 0,
     music_processed |-> 0, items_quarantined |-> 0, errors |-> 0, saved |-> FALSE]

\* quarantined items appended but not counted
AddCandidateCountsAccepted(r, item) ==
    LET res == [path |-> item.original_path, type |-> item.media_type,
                decision |-> item.decision, reason |-> item.decision_reason,
                score |-> item.confidence_score, destination |-> item.destination_path,
                match |-> item.best_match]
        accepted == item.decision = AUTO_ACCEPTED
    IN [r EXCEPT !.results = Append(@, res),
                 !.total_scanned = @ + 1,
                 !.movies_processed = IF accepted /\ item.media_type = MOVIE THEN @ + 1 ELSE @,
                 !.tv_shows_processed = IF accepted /\ item.media_type = TV_SHOW THEN @ + 1 ELSE @,
                 !.music_processed = IF accepted /\ item.media_type = MUSIC THEN @ + 1 ELSE @]

AddCandidate(r, item) ==
    LET res == [path |-> item.original_path, type |-> item.media_type,
                decision |-> item.decision, reason |-> item.decision_reason,
                score |-> item.confidence_score, destination |-> item.destination_path,
                match |-> item.best_match]
        accepted == item.decision = AUTO_ACCEPTED
    IN [r EXCEPT !.results = Append(@, res),
                 !.total_scanned = @ + 1,
                 !.movies_processed = IF accepted /\ item.media_type = MOVIE THEN @ + 1 ELSE @,
                 !.tv_shows_processed = IF accepted /\ item.media_type = TV_SHOW THEN @ + 1 ELSE @,
                 !.music_processed = IF accepted /\ item.media_type = MUSIC THEN @ + 1 ELSE @,
                 !.items_quarantined = IF item.decision = QUARANTINE THEN @ + 1 ELSE @]

----------------------------------------------------------------------------
(* scanner.py: what scan_and_group makes of one scanned unit *)

\* find_matching_subtitles appends {"path": sub, "language": language}
MatchedSubtitle(i, k) == [kind |-> "dict", path |-> SubPath(i, k), language |-> "English"]

\* _process_movie_file, _process_tv_group, _process_music_group
MakeItem(i, unit) ==
    [original_path |-> SrcPath(i),
     media_type |-> unit.media_type,
     parsed_year |-> IF unit.media_type = MOVIE THEN unit.year ELSE NoYear,
     season |-> unit.season,
     episode |-> unit.episode,
     translation_hint |-> unit.translation_hint,
     file_metadata |-> unit.file_metadata,
     subtitles |-> IF unit.media_type = MUSIC THEN <<>>
                   ELSE [k \in 1..unit.nsubs |-> MatchedSubtitle(i, k)],
     candidates |-> <<>>,
     best_match |-> <<>>,
     decision |-> PENDING,
     decision_reason |-> NoReason,
     confidence_score |-> 0,
     destination_path |-> <<>>]

ScanAndGroup(units) == [i \in 1..Len(units) |-> MakeItem(i, units[i])]

----------------------------------------------------------------------------
(* The inputs of a run: the scanned source tree, the configuration, the    *)
(* library already at the destination, and the catalogues' answers.        *)

Unit(media_type, year, episode, nsubs) ==
    [media_type |-> media_type, year |-> year, season |-> 1, episode |-> episode,
     nsubs |-> nsubs, translation_hint |-> FALSE, file_metadata |-> NoFileMetadata]

Units ==
    {Unit(MUSIC, NoYear, 0, 0)}
    \cup {Unit(MOVIE, 1999, 0, n) : n \in {0, MaxSubs}}
    \cup {Unit(TV_SHOW, NoYear, e, 0) : e \in {1, 2}}

Trees == UNION {[1..n -> Units] : n \in 0..MaxItems}

SourceFiles(units) ==
    [p \in {SrcPath(i) : i \in 1..Len(units)}
           \cup UNION {{SubPath(i, k) : k \in 1..units[i].nsubs} : i \in 1..Len(units)}
     |-> IF p.kind = "src" THEN Content("media", p.a) ELSE Content("subtitle", p.a)]

ApiDefault == [tmdb_enabled |-> TRUE, imdb_fallback |-> TRUE, tvmaze_enabled |-> TRUE]

BehaviorDefault == [use_beets_for_music |-> TRUE]

Config(dry_run, auto_accept) ==
    [dry_run |-> dry_run, auto_accept |-> auto_accept, quarantine_threshold |-> QuarantineDefault,
     api |-> ApiDefault, behavior |-> BehaviorDefault]

\* the defaults, dry or applying, and a run with auto_accept_threshold: 0.75
Configs == {Config(TRUE, AutoAcceptDefault), Config(FALSE, AutoAcceptDefault), Config(FALSE, 750)}

\* catalogue entries; sim is the title similarity to the item's query title
M1 == Result("tmdb", 1, "A", 1999, 1000)

M2 == Result("tmdb", 2, "A", 1999, 900)

M3 == Result("tmdb", 3, "B", 2000, 1000)

M4 == Result("tmdb", 4, "B", 2005, 500)

I1 == Result("imdb", 1, "A", 1999, 1000)

T1 == Result("tmdb", 10, "S", 2010, 1000)

Z1 == Result("tvmaze", 10, "S", 2010, 1000)

NoAnswer == Response(TRUE, <<>>)

MovieAnswers ==
    {[tmdb |-> t, imdb |-> i, tvmaze |-> NoAnswer] :
        t \in {Failure, NoAnswer, Response(TRUE, <<M1>>), Response(TRUE, <<M1, M2>>),
               Response(TRUE, <<M3>>), Response(TRUE, <<M4>>), Response(TRUE, <<M4, M1>>)},
        i \in {Failure, Response(TRUE, <<I1>>)}}

TvAnswers ==
    {[tmdb |-> t, imdb |-> NoAnswer, tvmaze |-> z] :
        t \in {Failure, Response(TRUE, <<T1>>)},
        z \in {Failure, Response(TRUE, <<Z1>>)}}

Answers(item) == IF item.media_type = MOVIE THEN MovieAnswers ELSE TvAnswers

\* files a previous run left at the destination
EmptyLibrary == [p \in {} |-> Content("library", 0)]

OldLibrary ==
    [p \in {MovieFile(M1), MovieNfo(M1), Path("review_file", "", 1, 0), Path("review_meta", "", 1, 0)}
     |-> Content("library", 0)]

Libraries == {EmptyLibrary, OldLibrary}

----------------------------------------------------------------------------
(* main.py *)

\* config = get_config(args.config) has returned
ConfigLoaded == [config_file |-> "loaded"]

Init ==
    /\ pc = "scan"
    /\ idx = 0
    /\ cfg \in Configs
    /\ tree \in Trees
    /\ items = <<>>
    /\ \E lib \in (IF cfg.dry_run THEN {OldLibrary} ELSE Libraries) :
          /\ fs = SourceFiles(tree) @@ lib
          /\ dirs = IF lib = EmptyLibrary THEN {} ELSE {MovieDir(M1), ReviewDir}
    /\ report = EmptyReport
    /\ queried = <<>>
    /\ applied = <<>>
    /\ env = ConfigLoaded

NotApplied == [ret |-> "none", media |-> "none", calls |-> 0]

\* candidates = scanner.scan_and_group()
Scan ==
    /\ pc = "scan"
    /\ items' = ScanAndGroup(tree)
    /\ queried' = [i \in 1..Len(tree) |-> {}]
    /\ applied' = [i \in 1..Len(tree) |-> NotApplied]
    /\ pc' = "identify"
    /\ idx' = 1
    /\ UNCHANGED <<cfg, tree, fs, dirs, report, env>>

\* stage 2, a music item: continue
SkipMusic ==
    /\ pc = "identify"
    /\ idx <= Len(items)
    /\ items[idx].media_type = MUSIC
    /\ idx' = idx + 1
    /\ UNCHANGED <<pc, cfg, tree, items, fs, dirs, report, queried, applied, env>>

\* metadata_mgr.identify(cand)
IdentifyStep ==
    /\ pc = "identify"
    /\ idx <= Len(items)
    /\ items[idx].media_type # MUSIC
    /\ \E primary \in Answers(items[idx]) :
          LET r == Identify(items[idx], cfg.api, primary, primary) IN
             /\ items' = [items EXCEPT ![idx] = r.item]
             /\ queried' = [queried EXCEPT ![idx] = r.contacted]
    /\ pc' = "score"
    /\ UNCHANGED <<idx, cfg, tree, fs, dirs, report, applied, env>>

\* if cand.candidates: scorer.score(cand)
ScoreStep ==
    /\ pc = "score"
    /\ items' = [items EXCEPT ![idx] = IF @.candidates # <<>> THEN ScoreItem(@) ELSE @]
    /\ pc' = "identify"
    /\ idx' = idx + 1
    /\ UNCHANGED <<cfg, tree, fs, dirs, report, queried, applied, env>>

\* stage 2 is over, stage 3 starts
StartDecide ==
    /\ pc = "identify"
    /\ idx > Len(items)
    /\ pc' = "decide"
    /\ idx' = 1
    /\ UNCHANGED <<cfg, tree, items, fs, dirs, report, queried, applied, env>>

\* organizer.decide(cand)
DecideStep ==
    /\ pc = "decide"
    /\ idx <= Len(items)
    /\ items' = [items EXCEPT ![idx] = Decide(@, cfg.auto_accept, cfg.quarantine_threshold)]
    /\ pc' = "apply"
    /\ UNCHANGED <<idx, cfg, tree, fs, dirs, report, queried, applied, env>>

\* organizer.apply(cand); an exception that leaves apply ends main
ApplyStep ==
    /\ pc = "apply"
    /\ \E io_ok \in BOOLEAN, beets_ok \in BOOLEAN :
          LET o == Apply(items[idx], [fs |-> fs, dirs |-> dirs], cfg.behavior, cfg.dry_run,
                         io_ok, beets_ok)
          IN /\ items' = [items EXCEPT ![idx] = o.item]
             /\ fs' = o.fs
             /\ dirs' = o.dirs
             /\ applied' = [applied EXCEPT ![idx] = [ret |-> o.ret, media |-> o.media, calls |-> o.calls]]
             /\ pc' = IF o.ret = "raised" THEN "crashed" ELSE "report"
    /\ UNCHANGED <<idx, cfg, tree, report, queried, env>>

\* report.add_candidate(cand)
ReportStep ==
    /\ pc = "report"
    /\ report' = AddCandidate(report, items[idx])
    /\ pc' = "decide"
    /\ idx' = idx + 1
    /\ UNCHANGED <<cfg, tree, items, fs, dirs, queried, applied, env>>

\* report.save(args.report); report.print_summary(); return 0
Save ==
    /\ pc = "decide"
    /\ idx > Len(items)
    /\ report' = [report EXCEPT !.saved = TRUE]
    /\ pc' = "done"
    /\ UNCHANGED <<idx, cfg, tree, items, fs, dirs, queried, applied, env>>

Next ==
    \/ Scan
    \/ SkipMusic
    \/ IdentifyStep
    \/ ScoreStep
    \/ StartDecide
    \/ DecideStep
    \/ ApplyStep
    \/ ReportStep
    \/ Save

Spec == Init /\ [][Next]_vars

----------------------------------------------------------------------------
(* The resolver alone: identify(candidate) on one item, under every switch *)
(* of the api section and every pair of answers to the primary-title query *)
(* and to the translation-hint query.                                      *)

\* the api section of the configuration: tmdb_enabled, imdb_fallback, tvmaze_enabled
Apis == [tmdb_enabled : BOOLEAN, imdb_fallback : BOOLEAN, tvmaze_enabled : BOOLEAN]

\* a movie or an episode; hint: get_spanish_to_english_hint found a translation
ResolveUnits ==
    {[Unit(MOVIE, 1999, 0, 0) EXCEPT !.translation_hint = h] : h \in BOOLEAN}
    \cup {[Unit(TV_SHOW, NoYear, 1, 0) EXCEPT !.translation_hint = h] : h \in BOOLEAN}

InitResolve ==
    /\ pc = "resolve"
    /\ idx = 1
    /\ \E api \in Apis : cfg = [Config(TRUE, AutoAcceptDefault) EXCEPT !.api = api]
    /\ tree \in {<<u>> : u \in ResolveUnits}
    /\ items = ScanAndGroup(tree)
    /\ fs = SourceFiles(tree)
    /\ dirs = {}
    /\ report = EmptyReport
    /\ queried = <<{}>>
    /\ applied = <<NotApplied>>
    /\ \E primary \in Answers(items[1]), hint \in Answers(items[1]) :
          env = [primary |-> primary, hint |-> hint]

\* metadata_mgr.identify(cand)
Resolve ==
    /\ pc = "resolve"
    /\ LET r == Identify(items[idx], cfg.api, env.primary, env.hint) IN
          /\ items' = [items EXCEPT ![idx] = r.item]
          /\ queried' = [queried EXCEPT ![idx] = r.contacted]
    /\ pc' = "resolved"
    /\ UNCHANGED <<idx, cfg, tree, fs, dirs, report, applied, env>>

NextResolve == Resolve

SpecResolve == InitResolve /\ [][NextResolve]_vars

----------------------------------------------------------------------------
(* The scorer alone: score(candidate) on one item, for every order of the  *)
(* candidates identify may have left, with and without a year in the       *)
(* filename, under every technical metadata the probe may return.          *)

\* what _probe_file returns: video_codec and hdr of the file, or {} when probing fails
FileMetadatas ==
    {NoFileMetadata}
    \cup {[present |-> TRUE, video_codec |-> c, hdr |-> h] : c \in {"", "h265", "xvid"}, h \in BOOLEAN}

\* catalogue entries of differing year and title similarity
P1 == Result("tmdb", 1, "A", 2016, 1000)

P2 == Result("tmdb", 2, "A", 2015, 900)

P3 == Result("tmdb", 3, "A", NoYear, 1000)

P4 == Result("tmdb", 4, "B", 2005, 600)

\* the candidate lists identify leaves: up to MaxCands entries of distinct key, in any order
CandidateLists ==
    {c \in UNION {[1..n -> {P1, P2, P3, P4}] : n \in 0..MaxCands} :
        \A i, j \in 1..Len(c) : i # j => c[i] # c[j]}

InitScore ==
    /\ pc = "score"
    /\ idx = 1
    /\ cfg = Config(TRUE, AutoAcceptDefault)
    /\ tree = <<Unit(MOVIE, NoYear, 0, 0)>>
    /\ \E y \in {NoYear, 2015}, fm \in FileMetadatas, c \in CandidateLists :
          /\ items = <<[MakeItem(1, tree[1]) EXCEPT !.parsed_year = y, !.file_metadata = fm,
                                                   !.candidates = c]>>
          /\ env = [candidates |-> c]
    /\ fs = SourceFiles(tree)
    /\ dirs = {}
    /\ report = EmptyReport
    /\ queried = <<{}>>
    /\ applied = <<NotApplied>>

\* scorer.score(cand)
ScoreOne ==
    /\ pc = "score"
    /\ items' = [items EXCEPT ![idx] = ScoreItem(@)]
    /\ pc' = "scored"
    /\ UNCHANGED <<idx, cfg, tree, fs, dirs, report, queried, applied, env>>

NextScore == ScoreOne

SpecScore == InitScore /\ [][NextScore]_vars

----------------------------------------------------------------------------
(* _score_year alone, for scorers built with each year_tolerance           *)

QueryYears == {NoYear, 2000, 2001}

ResultYears == {NoYear} \cup (1994..2007)

InitYear ==
    /\ pc = "year"
    /\ idx = 0
    /\ cfg = Config(TRUE, AutoAcceptDefault)
    /\ tree = <<>>
    /\ items = <<>>
    /\ fs = EmptyLibrary
    /\ dirs = {}
    /\ report = EmptyReport
    /\ queried = <<>>
    /\ applied = <<>>
    /\ \E t \in 0..MaxTolerance, q \in QueryYears, r \in ResultYears :
          env = [year_tolerance |-> t, query_year |-> q, result_year |-> r, year_score |-> <<>>]

\* year_score = self._score_year(query_year, result_year)
ScoreYearStep ==
    /\ pc = "year"
    /\ env' = [env EXCEPT !.year_score =
                  <<ScoreYearWith(env.year_tolerance, env.query_year, env.result_year)>>]
    /\ pc' = "year_scored"
    /\ UNCHANGED <<idx, cfg, tree, items, fs, dirs, report, queried, applied>>

NextYear == ScoreYearStep

SpecYear == InitYear /\ [][NextYear]_vars

----------------------------------------------------------------------------
(* The scanner alone: scan_and_group over the files of a source tree.  A   *)
(* file name is the sequence of the words of its stem (split at the        *)
(* separators) and an extension; a name starts with another when the       *)
(* other's words are a prefix of its words.                                *)

File(dir, name, ext) == [dir |-> dir, name |-> name, ext |-> ext]

\* a directory as the original_path of a music item
Directory(dir) == [dir |-> dir, name |-> <<>>, ext |-> ""]

\* utils.is_video, is_audio, is_subtitle: by extension
IsVideo(f) == f.ext \in {"mkv", "mp4", "avi"}

IsAudio(f) == f.ext \in {"mp3", "flac"}

IsSubtitle(f) == f.ext \in {"srt", "sub"}

\* d.startswith("."): the directories os.walk is kept out of
IsHiddenDir(dir) == dir \in {".h"}

\* the episode numbers the patterns of extract_tv_info read from a word
EpisodeTags == {"S01E01", "S01E02", "S00E01"}

SeasonOfTag(w) == IF w = "S00E01" THEN 0 ELSE 1

EpisodeOfTag(w) == IF w = "S01E02" THEN 2 ELSE 1

\* name_cleaner.extract_tv_info: the first match in the stem, or all None
ExtractTvInfo(name) ==
    LET hits == {k \in 1..Len(name) : name[k] \in EpisodeTags} IN
       IF hits = {} THEN [title |-> <<>>, season |-> <<>>, episode |-> <<>>]
       ELSE LET k == CHOOSE h \in hits : \A g \in hits : h <= g IN
               [title |-> SubSeq(name, 1, k - 1),
                season |-> <<SeasonOfTag(name[k])>>,
                episode |-> <<EpisodeOfTag(name[k])>>]

\* name_cleaner.is_likely_tv_show
IsLikelyTvShow(name) ==
    LET info == ExtractTvInfo(name) IN info.season # <<>> /\ info.episode # <<>>

\* _apply_organized: _, season, episode = extract_tv_info(candidate.name);
\* season = season or 1; episode = episode or 1
TvNumbering(name) ==
    LET info == ExtractTvInfo(name) IN
       [season |-> IF info.season = <<>> \/ info.season[1] = 0 THEN 1 ELSE info.season[1],
        episode |-> IF info.episode = <<>> \/ info.episode[1] = 0 THEN 1 ELSE info.episode[1]]

\* sub_basename.startswith(video_basename)
StartsWith(name, stem) ==
    Len(stem) <= Len(name) /\ SubSeq(name, 1, Len(stem)) = stem

\* utils.detect_subtitle_language: the code after the last separator, if it is a language code
DetectSubtitleLanguage(name) ==
    IF name # <<>> /\ name[Len(name)] \in {"en", "eng", "english"} THEN <<"English">> ELSE <<>>

RECURSIVE Select(_, _)
Select(s, keep) ==
    IF s = <<>> THEN <<>>
    ELSE (IF Head(s) \in keep THEN <<Head(s)>> ELSE <<>>) \o Select(Tail(s), keep)

\* the keys of a dict filled in one pass: each directory once, in first-seen order
RECURSIVE FirstSeen(_, _)
FirstSeen(s, seen) ==
    IF s = <<>> THEN <<>>
    ELSE IF Head(s) \in seen THEN FirstSeen(Tail(s), seen)
    ELSE <<Head(s)>> \o FirstSeen(Tail(s), seen \cup {Head(s)})

RECURSIVE Concat(_)
Concat(ss) == IF ss = <<>> THEN <<>> ELSE Head(ss) \o Concat(Tail(ss))

Elems(s) == {s[k] : k \in 1..Len(s)}

\* utils.find_matching_subtitles: every subtitle of the list whose name starts with the video's stem
FindMatchingSubtitles(video, subtitle_files) ==
    LET matching == Select(subtitle_files,
                           {sub \in Elems(subtitle_files) : StartsWith(sub.name, video.name)})
    IN [k \in 1..Len(matching) |->
           [path |-> matching[k], language |-> DetectSubtitleLanguage(matching[k].name)]]

Candidate(path, media_type, parsed_title, subtitles) ==
    [original_path |-> path, name |-> path.name, media_type |-> media_type,
     parsed_title |-> parsed_title, subtitles |-> subtitles, decision |-> PENDING]

\* _process_movie_file
ProcessMovieFile(f, all_subtitles) ==
    Candidate(f, MOVIE, f.name, FindMatchingSubtitles(f, all_subtitles))

\* _process_tv_group: one candidate per file of the directory; the season and
\* the episode extract_tv_info returns are not stored on the candidate
ProcessTvGroup(directory, files, all_subtitles) ==
    [k \in 1..Len(files) |->
        LET info == ExtractTvInfo(files[k].name)
            title == IF info.title = <<>> THEN <<directory>> ELSE info.title
        IN Candidate(files[k], TV_SHOW, title, FindMatchingSubtitles(files[k], all_subtitles))]

\* _process_music_group
ProcessMusicGroup(directory) == Candidate(Directory(directory), MUSIC, <<>>, <<>>)

\* _scan_stage: the walk skips hidden directories and files that are no media
ScanStage(listing) ==
    LET walked == {f \in Elems(listing) : ~IsHiddenDir(f.dir)} IN
       [video |-> Select(listing, {f \in walked : IsVideo(f)}),
        audio |-> Select(listing, {f \in walked : IsAudio(f)}),
        subtitle |-> Select(listing, {f \in walked : IsSubtitle(f)})]

\* the videos of a music directory are left to the movie and TV grouping
GroupStageKeepsMusicVideos(raw_files) ==
    LET audio_dirs == FirstSeen([k \in 1..Len(raw_files.audio) |-> raw_files.audio[k].dir], {})
        music == [k \in 1..Len(audio_dirs) |-> ProcessMusicGroup(audio_dirs[k])]
        handled_files == Elems(raw_files.audio)
        video_files == Select(raw_files.video, Elems(raw_files.video) \ handled_files)
        subtitles == Select(raw_files.subtitle, Elems(raw_files.subtitle) \ handled_files)
        video_dirs == FirstSeen([k \in 1..Len(video_files) |-> video_files[k].dir], {})
        group(directory) ==
            LET files == Select(video_files, {f \in Elems(video_files) : f.dir = directory})
                tv_in_dir == {f \in Elems(files) : IsLikelyTvShow(f.name)}
            IN IF tv_in_dir # {}
               THEN ProcessTvGroup(directory, files, subtitles)
               ELSE [k \in 1..Len(files) |-> ProcessMovieFile(files[k], subtitles)]
    IN music \o Concat([k \in 1..Len(video_dirs) |-> group(video_dirs[k])])

\* _group_stage
GroupStage(raw_files) ==
    LET audio_dirs == FirstSeen([k \in 1..Len(raw_files.audio) |-> raw_files.audio[k].dir], {})
        music == [k \in 1..Len(audio_dirs) |-> ProcessMusicGroup(audio_dirs[k])]
        handled_files ==
            {f \in Elems(raw_files.audio) \cup Elems(raw_files.video) \cup Elems(raw_files.subtitle) :
                f.dir \in Elems(audio_dirs)}
        video_files == Select(raw_files.video, Elems(raw_files.video) \ handled_files)
        subtitles == Select(raw_files.subtitle, Elems(raw_files.subtitle) \ handled_files)
        video_dirs == FirstSeen([k \in 1..Len(video_files) |-> video_files[k].dir], {})
        group(directory) ==
            LET files == Select(video_files, {f \in Elems(video_files) : f.dir = directory})
                tv_in_dir == {f \in Elems(files) : IsLikelyTvShow(f.name)}
            IN IF tv_in_dir # {}
               THEN ProcessTvGroup(directory, files, subtitles)
               ELSE [k \in 1..Len(files) |-> ProcessMovieFile(files[k], subtitles)]
    IN music \o Concat([k \in 1..Len(video_dirs) |-> group(video_dirs[k])])

\* the files a source tree may hold
ScanPool ==
    {File("a", <<"Movie">>, "mkv"), File("a", <<"Movie", "2">>, "mkv"),
     File("a", <<"Movie", "2", "en">>, "srt"), File("a", <<"Show", "S01E01">>, "mkv"),
     File("a", <<"Show", "S00E01">>, "mkv"), File("a", <<"Track">>, "mp3"),
     File("a", <<"notes">>, "txt"),
     File("b", <<"Movie">>, "mkv"), File("b", <<"Show", "S01E02">>, "mkv"),
     File("b", <<"Movie", "en">>, "srt"), File("b", <<"Track">>, "mp3"),
     File(".h", <<"Movie">>, "mkv"), File(".h", <<"Track">>, "mp3")}

\* what os.walk lists: up to MaxFiles files, in any order
Listings ==
    {l \in UNION {[1..n -> ScanPool] : n \in 0..MaxFiles} :
        \A i, j \in 1..Len(l) : i # j => l[i] # l[j]}

InitScan ==
    /\ pc = "walk"
    /\ idx = 0
    /\ cfg = Config(TRUE, AutoAcceptDefault)
    /\ tree \in Listings
    /\ items = <<>>
    /\ fs = EmptyLibrary
    /\ dirs = {}
    /\ report = EmptyReport
    /\ queried = <<>>
    /\ applied = <<>>
    /\ env = ConfigLoaded

\* candidates = scanner.scan_and_group()
Walk ==
    /\ pc = "walk"
    /\ items' = GroupStage(ScanStage(tree))
    /\ pc' = "grouped"
    /\ UNCHANGED <<idx, cfg, tree, fs, dirs, report, queried, applied, env>>

NextScan == Walk

SpecScan == InitScan /\ [][NextScan]_vars

----------------------------------------------------------------------------
(* main from its first line: the configuration is loaded, then the         *)
(* pipeline runs.  named is the state of the file given with --config      *)
(* ("none": no --config argument), cwd the state of ./config.yaml.         *)

\* a file is missing, readable YAML, present but not openable, or no valid YAML
ConfigFileStates == {"missing", "ok", "unopenable", "malformed"}

\* what the configuration files of the model set: auto_accept_threshold: 0.75
FileSettings(config) == [config EXCEPT !.auto_accept = 750]

\* _load_yaml: open and yaml.safe_load, merged into the defaults; an OSError
\* of open and the ValueError made of a YAMLError leave the constructor
LoadYaml(config, file) ==
    IF file = "ok" THEN [config |-> FileSettings(config), raised |-> FALSE]
    ELSE [config |-> config, raised |-> TRUE]

\* Config.__init__(config_path): the named file if it exists, else
\* ./config.yaml if it exists, else the defaults
NewConfig(defaults, named, cwd) ==
    IF named \notin {"none", "missing"} THEN LoadYaml(defaults, named)
    ELSE IF cwd # "missing" THEN LoadYaml(defaults, cwd)
    ELSE [config |-> defaults, raised |-> FALSE]

InitConfig ==
    /\ pc = "config"
    /\ idx = 0
    /\ cfg \in {Config(TRUE, AutoAcceptDefault), Config(FALSE, AutoAcceptDefault)}
    /\ tree \in {t \in Trees : Len(t) <= 1}
    /\ items = <<>>
    /\ fs = SourceFiles(tree) @@ OldLibrary
    /\ dirs = {MovieDir(M1), ReviewDir}
    /\ report = EmptyReport
    /\ queried = <<>>
    /\ applied = <<>>
    /\ env \in [named : {"none"} \cup ConfigFileStates, cwd : ConfigFileStates]

\* reset_config(); config = get_config(args.config); an exception ends main
LoadConfig ==
    /\ pc = "config"
    /\ LET c == NewConfig(cfg, env.named, env.cwd) IN
          /\ cfg' = c.config
          /\ pc' = IF c.raised THEN "aborted" ELSE "scan"
    /\ UNCHANGED <<idx, tree, items, fs, dirs, report, queried, applied, env>>

NextConfig ==
    \/ LoadConfig
    \/ Next

SpecConfig == InitConfig /\ [][NextConfig]_vars

----------------------------------------------------------------------------
(* The filename parser alone.  A name is the sequence of its tokens, split *)
(* at the separators: a word, a bare four-digit number, a four-digit       *)
(* number in parentheses, or a release tag (resolution, codec, source).    *)
(* A title is a name of words and numbers.                                 *)

\* name_cleaner._extract_year: the first "(dddd)" if it lies in 1900..2099,
\* else the last 19dd or 20dd anywhere in the name, also between parentheses
ExtractYear(name) ==
    LET parens == {k \in 1..Len(name) : name[k].kind = "paren"}
        first == CHOOSE k \in parens : \A j \in parens : k <= j
        years == {k \in 1..Len(name) :
                     name[k].kind \in {"num", "paren"} /\ name[k].n \in 1900..2099}
        last == CHOOSE k \in years : \A j \in years : j <= k
    IN IF parens # {} /\ name[first].n \in 1900..2099 THEN <<name[first].n>>
       ELSE IF years # {} THEN <<name[last].n>>
       ELSE <<>>

\* name_cleaner._smart_title_case: every word lowered, then capitalized if it
\* is the first word or no word of lowercase_words
SmartTitleCase(name) ==
    LET lower(w) == IF w = "A" THEN "a" ELSE IF w = "Odyssey" THEN "odyssey" ELSE w
        capitalize(w) == IF w = "a" THEN "A" ELSE IF w = "odyssey" THEN "Odyssey" ELSE w
    IN [k \in 1..Len(name) |->
           IF k = 1 \/ lower(name[k].w) \notin {"a", "an", "the", "of"}
           THEN [name[k] EXCEPT !.w = capitalize(lower(@))]
           ELSE [name[k] EXCEPT !.w = lower(@)]]

\* name_cleaner.clean_media_filename: [title, year]; every occurrence of the
\* year, everything between parentheses and every release tag is removed
CleanMediaFilename(name) ==
    LET year == ExtractYear(name)
        kept == {k \in 1..Len(name) :
                    /\ name[k].kind \in {"word", "num"}
                    /\ ~(year # <<>> /\ name[k].kind = "num" /\ name[k].n = year[1])}
    IN [title |-> SmartTitleCase(Select(name, {name[k] : k \in kept})), year |-> year]

\* the raw names: up to MaxTokens tokens
RawNames ==
    UNION {[1..n -> {[kind |-> "word", w |-> "a", n |-> 0],
                     [kind |-> "word", w |-> "Odyssey", n |-> 0],
                     [kind |-> "num", w |-> "2001", n |-> 2001],
                     [kind |-> "num", w |-> "1968", n |-> 1968],
                     [kind |-> "paren", w |-> "(1968)", n |-> 1968],
                     [kind |-> "paren", w |-> "(1850)", n |-> 1850],
                     [kind |-> "tag", w |-> "1080p", n |-> 0]}] : n \in 0..MaxTokens}

InitClean ==
    /\ pc = "clean"
    /\ idx = 0
    /\ cfg = Config(TRUE, AutoAcceptDefault)
    /\ tree = <<>>
    /\ items = <<>>
    /\ fs = EmptyLibrary
    /\ dirs = {}
    /\ report = EmptyReport
    /\ queried = <<>>
    /\ applied = <<>>
    /\ \E raw \in RawNames : env = [raw |-> raw, cleaned |-> <<>>, again |-> <<>>]

\* title, year = clean_media_filename(filename)
CleanStep ==
    /\ pc = "clean"
    /\ env' = [env EXCEPT !.cleaned = <<CleanMediaFilename(env.raw)>>]
    /\ pc' = "cleaned"
    /\ UNCHANGED <<idx, cfg, tree, items, fs, dirs, report, queried, applied>>

\* clean_media_filename run on the title it returned
CleanAgain ==
    /\ pc = "cleaned"
    /\ env' = [env EXCEPT !.again = <<CleanMediaFilename(env.cleaned[1].title)>>]
    /\ pc' = "recleaned"
    /\ UNCHANGED <<idx, cfg, tree, items, fs, dirs, report, queried, applied>>

NextClean ==
    \/ CleanStep
    \/ CleanAgain

SpecClean == InitClean /\ [][NextClean]_vars

----------------------------------------------------------------------------
(* Positions of main *)

\* the items for which organizer.decide has returned
Decided ==
    {i \in 1..Len(items) :
        \/ pc = "done"
        \/ pc = "decide" /\ i < idx
        \/ pc \in {"apply", "report", "crashed"} /\ i <= idx}

\* the items for which organizer.apply has returned or raised
Applied ==
    {i \in 1..Len(items) :
        \/ pc = "done"
        \/ pc \in {"decide", "apply"} /\ i < idx
        \/ pc \in {"report", "crashed"} /\ i <= idx}

Video(i) == items[i].media_type # MUSIC

\* the number of candidates of item i at or above the configured auto-accept threshold
Clearing(i) ==
    Cardinality({k \in 1..Len(items[i].candidates) :
                    items[i].candidates[k].score.overall >= cfg.auto_accept})

\* the (source, id) pair the dedup loop of identify keys on
Key(r) == <<r.source, r.id>>

\* the queries identify makes for an item: the primary title, and the hint if there is one
Queries(item) == IF item.translation_hint THEN {"primary", "hint"} ELSE {"primary"}

\* results.extend(...) of identify: the results of the queries, in the order they are made
Merged(item, api, e) ==
    LET search(resp) == IF item.media_type = MOVIE THEN SearchMovies(api, resp).results
                        ELSE SearchTv(api, resp).results
    IN search(e.primary) \o (IF item.translation_hint THEN search(e.hint) ELSE <<>>)

\* the directories of a listing the walk enters and finds an audio file in
MusicDirs(listing) == {f.dir : f \in {g \in Elems(listing) : IsAudio(g) /\ ~IsHiddenDir(g.dir)}}

\* the video files of a listing the walk finds in directories without audio
LooseVideos(listing) ==
    {f \in Elems(listing) : IsVideo(f) /\ ~IsHiddenDir(f.dir) /\ f.dir \notin MusicDirs(listing)}

\* the items made for a path
ItemsOf(path) == {i \in 1..Len(items) : items[i].original_path = path}

----------------------------------------------------------------------------
(* Properties *)

\* C1: after decide returns, decision_reason is a non-null string, for every
\* item whatever its media type, candidates and scores.
C1_ReasonNeverNull ==
    \A i \in Decided : items[i].decision_reason # NoReason

\* C2: a non-music item with a best match and two or more candidates at or
\* above the auto-accept threshold is quarantined with the ambiguous-match
\* reason, and never auto-accepted.
C2_AmbiguousQuarantined ==
    \A i \in Decided :
        (Video(i) /\ items[i].best_match # <<>> /\ Clearing(i) >= 2)
        => /\ items[i].decision = QUARANTINE
           /\ items[i].decision_reason = ReasonAmbiguous

C2_Witness ==
    \E i \in Decided :
        /\ Video(i) /\ items[i].best_match # <<>> /\ Clearing(i) >= 2
        /\ items[i].decision = QUARANTINE
        /\ items[i].best_match[1].score.overall > cfg.auto_accept

\* C3: a non-music item whose best-match score is at or above the auto-accept
\* threshold, with exactly one candidate clearing it, is auto-accepted.
C3_SingleConfidentAccepted ==
    \A i \in Decided :
        (/\ Video(i) /\ items[i].best_match # <<>>
         /\ items[i].best_match[1].score.overall >= cfg.auto_accept
         /\ Clearing(i) = 1)
        => items[i].decision = AUTO_ACCEPTED

C3_Witness ==
    \E i \in Decided :
        /\ Video(i) /\ items[i].best_match # <<>>
        /\ items[i].best_match[1].score.overall = cfg.auto_accept
        /\ Clearing(i) = 1
        /\ items[i].decision = AUTO_ACCEPTED

\* C4: a non-music item whose best-match score is below the auto-accept
\* threshold is quarantined; the reason is the below-auto-accept one exactly
\* when the score is at or above the quarantine threshold, and the
\* low-confidence one exactly when it is below.
C4_BelowOrLow ==
    \A i \in Decided :
        (/\ Video(i) /\ items[i].best_match # <<>>
         /\ items[i].best_match[1].score.overall < cfg.auto_accept)
        => /\ items[i].decision = QUARANTINE
           /\ (items[i].decision_reason = ReasonBelow
               <=> items[i].best_match[1].score.overall >= cfg.quarantine_threshold)
           /\ (items[i].decision_reason = ReasonLow
               <=> items[i].best_match[1].score.overall < cfg.quarantine_threshold)

C4_Witness ==
    \E i, j \in Decided :
        /\ Video(i) /\ items[i].best_match # <<>> /\ items[i].decision_reason = ReasonBelow
        /\ items[i].best_match[1].score.overall < cfg.auto_accept
        /\ Video(j) /\ items[j].best_match # <<>> /\ items[j].decision_reason = ReasonLow

\* C5: a non-music item without a best match is quarantined with the reason
\* "No metadata match found"; decide returns normally and the decision is not Error.
C5_NoMatchQuarantined ==
    \A i \in Decided :
        (Video(i) /\ items[i].best_match = <<>>)
        => /\ items[i].decision = QUARANTINE
           /\ items[i].decision_reason = ReasonNoMatch

C5_Witness ==
    \E i \in Decided :
        /\ Video(i) /\ items[i].best_match = <<>>
        /\ queried[i] # {}
        /\ items[i].decision = QUARANTINE

\* C6: a music item is always decided AutoAccepted, and the resolver is never
\* queried for it: no source is contacted and identify leaves it without candidates.
C6_MusicAccepted ==
    \A i \in 1..Len(items) :
        ~Video(i)
        => /\ i \in Decided => items[i].decision = AUTO_ACCEPTED
           /\ queried[i] = {}
           /\ \A a \in MovieAnswers \cup TvAnswers :
                 Identify(items[i], cfg.api, a, a) = [item |-> items[i], contacted |-> {}]

C6_Witness ==
    \E i \in Decided : ~Video(i) /\ items[i].decision = AUTO_ACCEPTED /\ pc = "done"

C8_NeverOverwritten ==
    [][\A p \in DOMAIN fs :
          p.kind \notin {"src", "src_sub"} => (p \in DOMAIN fs' /\ fs'[p] = fs[p])]_vars

\* C9: when the move of an item's media file fails (the destination exists, or
\* the move raises), apply does not report success and does not record the
\* destination on the item.
C9_FailedMoveReported ==
    \A i \in Applied :
        applied[i].media \in {"exists", "error"}
        => (applied[i].ret # "true" /\ items[i].destination_path = <<>>)

\* C10: no item aborts the run: main reaches report.save, and the saved report
\* holds one record per scanned item.
C10_RunCompletes ==
    /\ pc # "crashed"
    /\ pc = "done" => (report.saved /\ Len(report.results) = Len(items))

\* C11: in apply mode, for an auto-accepted movie or TV item and for a
\* quarantined item, the file move is invoked exactly once for the media file
\* and exactly once for each subtitle of the item's subtitle list.
C11_MoveOncePerFile ==
    \A i \in Applied :
        (/\ ~cfg.dry_run
         /\ \/ items[i].decision = QUARANTINE
            \/ items[i].decision = AUTO_ACCEPTED /\ Video(i))
        => /\ applied[i].media # "none"
           /\ applied[i].calls = Len(items[i].subtitles)

\* C12: after identify on a movie or TV item, the candidate list holds no two
\* entries with the same (source, id) pair, also when the primary-title query
\* and the translation-hint query return the same result, and the surviving
\* entries are the first occurrences, in the order of the merged query results.
C12_DedupFirstSeen ==
    pc = "resolved" =>
        LET c == items[1].candidates
            m == Merged(items[1], cfg.api, env)
            first(i) == CHOOSE k \in 1..Len(m) :
                           Key(m[k]) = Key(c[i]) /\ \A l \in 1..(k - 1) : Key(m[l]) # Key(c[i])
        IN /\ \A i, j \in 1..Len(c) : i # j => Key(c[i]) # Key(c[j])
           /\ {Key(c[i]) : i \in 1..Len(c)} = {Key(m[k]) : k \in 1..Len(m)}
           /\ \A i \in 1..Len(c) : c[i] = m[first(i)]
           /\ \A i, j \in 1..Len(c) : i < j => first(i) < first(j)

C12_Witness ==
    /\ pc = "resolved"
    /\ items[1].translation_hint
    /\ env.primary.tmdb = Response(TRUE, <<M1, M2>>)
    /\ env.hint.tmdb = Response(TRUE, <<M1>>)
    /\ items[1].candidates = <<M1, M2>>

C14_SortedBestFirst ==
    pc = "scored" =>
        LET c == items[1].candidates IN
           IF env.candidates = <<>>
           THEN /\ c = <<>>
                /\ items[1].best_match = <<>>
                /\ items[1].confidence_score = 0
           ELSE /\ Len(c) = Len(env.candidates)
                /\ {Key(c[k]) : k \in 1..Len(c)} = {Key(env.candidates[k]) : k \in 1..Len(c)}
                /\ \A k \in 1..(Len(c) - 1) : c[k].score.overall >= c[k + 1].score.overall
                /\ items[1].best_match = <<c[1]>>
                /\ items[1].confidence_score = c[1].score.overall
                /\ \A k \in 1..Len(c) : c[k].score.overall <= items[1].confidence_score

C14_Witness ==
    /\ pc = "scored"
    /\ env.candidates = <<P4, P2, P1>>
    /\ items[1].parsed_year = 2015
    /\ items[1].best_match # <<>>
    /\ Key(items[1].best_match[1]) = Key(P2)
    /\ items[1].confidence_score = 850

\* C15: for every tolerance T >= 0 and every pair of years the year score is
\* 0.5 without a query year, 0.3 with a query year and no candidate year, and
\* otherwise 1.0 for difference 0, 0.8 for 0 < difference <= T, 0.5 for
\* T < difference <= 2 and 0.2 beyond; so for a fixed query year the score
\* never grows as the difference grows.
C15_YearScoreTable ==
    pc = "year_scored" =>
        LET t == env.year_tolerance
            q == env.query_year
            r == env.result_year
            y == env.year_score[1]
            diff == Abs(q - r)
        IN /\ q = NoYear => y = 500
           /\ (q # NoYear /\ r = NoYear) => y = 300
           /\ (q # NoYear /\ r # NoYear) =>
                 /\ diff = 0 => y = 1000
                 /\ (0 < diff /\ diff <= t) => y = 800
                 /\ (t < diff /\ diff <= 2) => y = 500
                 /\ (diff > t /\ diff > 2) => y = 200
                 /\ \A r2 \in ResultYears \ {NoYear} :
                       Abs(q - r2) >= diff => ScoreYearWith(t, q, r2) <= y

C15_Witness ==
    /\ pc = "year_scored"
    /\ env.year_tolerance = 0
    /\ env.query_year = 2000
    /\ env.result_year = 2001
    /\ env.year_score = <<500>>

\* C16: when the filename had a year, score_match gives the same breakdown
\* for every file_metadata (any codec, any HDR flag, or none): the year score
\* and the overall score of every candidate are those computed without
\* technical metadata.
C16_MetadataNoEffectWithYear ==
    (pc = "scored" /\ items[1].parsed_year # NoYear) =>
        \A k \in 1..Len(items[1].candidates) :
            LET c == items[1].candidates[k] IN
               \A fm \in FileMetadatas :
                  /\ c.score = ScoreMatch(c.sim, items[1].parsed_year, c.year, NoFileMetadata)
                  /\ c.score = ScoreMatch(c.sim, items[1].parsed_year, c.year, fm)

C16_Witness ==
    /\ pc = "scored"
    /\ items[1].parsed_year = 2015
    /\ items[1].file_metadata = [present |-> TRUE, video_codec |-> "h265", hdr |-> TRUE]
    /\ \E k \in 1..Len(items[1].candidates) :
          /\ Key(items[1].candidates[k]) = Key(P1)
          /\ items[1].candidates[k].score.year_match = 800

\* C17: each subtitle file found by the scan is attached to at most one item:
\* no two items of one scan_and_group call list the same subtitle path, also
\* when the stem of one video is a prefix of the stem of another.
C17_SubtitleClaimedOnce ==
    pc = "grouped" =>
        \A i, j \in 1..Len(items) :
            i # j =>
               {sub.path : sub \in Elems(items[i].subtitles)}
               \cap {sub.path : sub \in Elems(items[j].subtitles)} = {}

C19_TvDirectoryPerFile ==
    pc = "grouped" =>
        \A f \in LooseVideos(tree) :
            LET tv == \E g \in LooseVideos(tree) : g.dir = f.dir /\ IsLikelyTvShow(g.name)
                info == ExtractTvInfo(f.name)
            IN /\ Cardinality(ItemsOf(f)) = 1
               /\ \A i \in ItemsOf(f) :
                     /\ items[i].media_type = IF tv THEN TV_SHOW ELSE MOVIE
                     /\ (tv /\ IsLikelyTvShow(f.name))
                        => TvNumbering(items[i].name) =
                              [season |-> info.season[1], episode |-> info.episode[1]]

\* C20: when the configuration file named for the run is missing, not
\* openable or malformed, the run aborts before the scan starts and before
\* any item is identified, decided or moved; it never continues on default
\* settings.
C20_BadConfigAborts ==
    env.named \in {"missing", "unopenable", "malformed"}
    => /\ pc \in {"config", "aborted"}
       /\ items = <<>>

\* C21: the filename parser is idempotent: parsing the title it returned
\* gives that title again, also when the title still holds a year-like token.
C21_CleanIdempotent ==
    pc = "recleaned" => env.again[1].title = env.cleaned[1].title

\* C25: the year is a parenthesized year of 1900..2099 when the name has one,
\* otherwise the last bare token of 1900..2099; a year-like number that is the
\* leading word of the title is not returned as the year and stays in the
\* title, with a later year in the name and without.
C25_YearExtraction ==
    pc = "cleaned" =>
        LET raw == env.raw
            title == env.cleaned[1].title
            year == env.cleaned[1].year
            lead == /\ Len(raw) >= 2
                    /\ raw[1].kind = "num" /\ raw[1].n \in 1900..2099
                    /\ raw[2].kind = "word"
            parens == {k \in 1..Len(raw) : raw[k].kind = "paren" /\ raw[k].n \in 1900..2099}
            bares == {k \in 1..Len(raw) :
                         raw[k].kind = "num" /\ raw[k].n \in 1900..2099 /\ ~(lead /\ k = 1)}
        IN /\ parens # {} => year \in {<<raw[k].n>> : k \in parens}
           /\ (parens = {} /\ bares # {})
              => year = <<raw[CHOOSE k \in bares : \A j \in bares : j <= k].n>>
           /\ (parens = {} /\ bares = {}) => year = <<>>
           /\ lead => (title # <<>> /\ title[1] = raw[1])

\* C22: the pipeline runs as whole-collection stages: no item is scored before
\* every item has been identified, none is decided before every item has been
\* scored, none is applied before every item has been decided.
C22_WholeCollectionStages ==
    /\ (\E i \in 1..Len(items) : items[i].best_match # <<>>)
       => \A j \in 1..Len(items) : Video(j) => queried[j] # {}
    /\ (\E i \in 1..Len(items) : items[i].decision # PENDING)
       => \A j \in 1..Len(items) :
             (Video(j) /\ items[j].candidates # <<>>) => items[j].best_match # <<>>
    /\ (\E i \in 1..Len(items) : applied[i].ret # "none")
       => \A j \in 1..Len(items) : items[j].decision # PENDING

\* C23: for a movie item IMDb is queried only if TMDb returned no result:
\* whenever TMDb returned a result for the item, be it for only one of the
\* primary-title query and the translation-hint query, the candidate list
\* holds no candidate from IMDb.
C23_ImdbOnlyWithoutTmdb ==
    (/\ pc = "resolved"
     /\ items[1].media_type = MOVIE
     /\ cfg.api.tmdb_enabled
     /\ \E q \in Queries(items[1]) : env[q].tmdb.ok /\ env[q].tmdb.results # <<>>)
    => /\ \A k \in 1..Len(items[1].candidates) : items[1].candidates[k].source # "imdb"
       /\ \A q \in Queries(items[1]) : [query |-> q, source |-> "imdb"] \notin queried[1]

\* C24: without a query year and with a candidate year, the metadata hint
\* raises the year score by exactly 0.1 when at least one corroboration holds
\* (modern codec and year >= 2015, legacy codec and year <= 2010, HDR and
\* year >= 2016) and leaves it unchanged otherwise: never more than 0.1 in
\* all, also when a codec hint and the HDR hint hold together.
C24_HintAtMostOneTenth ==
    (pc = "scored" /\ items[1].parsed_year = NoYear) =>
        \A k \in 1..Len(items[1].candidates) :
            LET c == items[1].candidates[k]
                fm == items[1].file_metadata
                corroborated ==
                    /\ fm.present
                    /\ \/ fm.video_codec \in {"h265", "av1", "vp9"} /\ c.year >= 2015
                       \/ fm.video_codec \in {"xvid", "divx"} /\ c.year <= 2010
                       \/ fm.hdr /\ c.year >= 2016
            IN c.year # NoYear
               => c.score.year_match = IF corroborated THEN 600 ELSE 500

\* C26: once decide has returned for an item its decision is AUTO_ACCEPTED or
\* QUARANTINE, never PENDING, IGNORED, MANUAL_REVIEW or ERROR, so apply is
\* never entered with an item for which it has no branch.
C26_DecidedDispositions ==
    /\ \A i \in Decided : items[i].decision \in {AUTO_ACCEPTED, QUARANTINE}
    /\ \A i \in 1..Len(items) : i \notin Decided => items[i].decision = PENDING
    /\ pc = "apply" => items[idx].decision \in {AUTO_ACCEPTED, QUARANTINE}

C26_Witness ==
    /\ pc = "done"
    /\ Len(items) = 2
    /\ items[1].decision = QUARANTINE
    /\ items[1].best_match = <<>>
    /\ items[2].decision = AUTO_ACCEPTED

\* C27: every auto-accepted item that is not music has a best match whose
\* overall score is at or above the auto-accept threshold, and that best match
\* is the only candidate of the item at or above it.
C27_AcceptedHasSoleMatch ==
    \A i \in Decided :
        (Video(i) /\ items[i].decision = AUTO_ACCEPTED) =>
            /\ items[i].best_match # <<>>
            /\ items[i].best_match[1].score.overall >= cfg.auto_accept
            /\ \A k \in 1..Len(items[i].candidates) :
                  items[i].candidates[k].score.overall >= cfg.auto_accept
                  => items[i].candidates[k] = items[i].best_match[1]

C27_Witness ==
    \E i \in Applied :
        /\ Video(i)
        /\ items[i].decision = AUTO_ACCEPTED
        /\ Len(items[i].candidates) >= 2
        /\ applied[i].ret = "true"

\* C28: in a dry run decide and apply change nothing on the filesystem, for
\* any item and any decision: no file is moved or written, no directory is
\* made, and the music importer, which alone sets a music item's
\* destination, is not run.
C28_DryRunTouchesNothing ==
    [][(cfg.dry_run /\ pc \in {"decide", "apply"}) =>
          /\ fs' = fs
          /\ dirs' = dirs
          /\ \A i \in 1..Len(items) :
                items[i].media_type = MUSIC => items'[i].destination_path = <<>>]_vars

C28_Witness ==
    /\ cfg.dry_run
    /\ pc = "done"
    /\ \E i, j \in 1..Len(items) :
          /\ items[i].decision = AUTO_ACCEPTED /\ Video(i) /\ applied[i].ret = "true"
          /\ items[j].decision = QUARANTINE /\ applied[j].ret = "true"

C30_TiesKeepFirstSeen ==
    pc = "scored" =>
        LET c == items[1].candidates
            pos(r) == CHOOSE k \in 1..Len(env.candidates) : Key(env.candidates[k]) = Key(r)
        IN /\ \A k, l \in 1..Len(c) :
                 (k < l /\ c[k].score = c[l].score) => pos(c[k]) < pos(c[l])
           /\ c # <<>> => items[1].best_match = <<c[1]>>
           /\ ScoreItem(items[1]).candidates = c
           /\ ScoreItem(items[1]).best_match = items[1].best_match

C30_Witness ==
    /\ pc = "scored"
    /\ Len(items[1].candidates) >= 2
    /\ items[1].candidates[1].score = items[1].candidates[2].score
    /\ items[1].candidates[1].id > items[1].candidates[2].id
    /\ Key(env.candidates[1]) = Key(items[1].candidates[1])

====
